---- MODULE Spec2Model ----
(***************************************************************************)
(* High-dimensional logistic regression (hdlogistic.py): the Chebyshev     *)
(* greedy path builder, the HDIC selection, the Trim step, and the         *)
(* estimator wrapper (fit / predict / score / tune_wn_via_ic).             *)
(*                                                                         *)
(* Numbers.  Real quantities are carried in fixed point:                   *)
(*   - a logarithm is in tenths (Log(3) = 11 stands for 1.1);              *)
(*   - wn is in tenths (10 stands for 1.0);                                *)
(*   - a loss is the numerator l of the rational l / LossDen, with         *)
(*     LossDen = 2 * NSamples;                                             *)
(*   - an information criterion is in thousandths.                         *)
(*                                                                         *)
(* scipy.optimize.minimize is outside the repository.  Its result on a set *)
(* S of columns is the optimum of the convex logistic loss on S: the loss  *)
(* lossOf[S] (chosen when S is first fitted, the same ever after, and      *)
(* monotone in S) and the solution Sol(S, j), carried symbolically.        *)
(* The gradient of the full loss at such an optimum is zero on the columns *)
(* of S and is otherwise a property of the data, chosen when first         *)
(* evaluated and the same ever after.                                      *)
(***************************************************************************)
EXTENDS Integers, Sequences, FiniteSets, TLC

\* ---- bounds of the explored inputs
NFeatures == 3      \* columns of X (n_features)
NSamples == 5       \* rows of X (n_samples)
MaxLoss == 2        \* losses are 0 .. MaxLoss, in units of 1 / LossDen
MaxGrad == 1        \* gradient entries are -MaxGrad .. MaxGrad
MaxWnSteps == 2     \* wn values are 0, WnStep, .. , MaxWnSteps * WnStep
WnStep == 4         \* spacing of the explored wn values, in tenths
MaxGrid == 2        \* length of param_grid
MaxTunes == 1       \* calls of tune_wn_via_ic in one run
MaxDeficiency == 0  \* rank(X) is at least (number of columns) - MaxDeficiency

\* ---- program constants
DefaultWn == 10     \* wn=1.0, in tenths
DefaultKn == 1      \* kn=1.0 of the estimator

LossDen == 2 * NSamples
ICs == {"HQIC", "AIC", "BIC"}
None == 0 - 1
WnValues == {WnStep * i : i \in 0..MaxWnSteps}

\* ---- arrays are functions on 0 .. n-1, as in the source
Size(a) == Cardinality(DOMAIN a)
Full(n, v) == [i \in 0..(n - 1) |-> v]
With(a, v) == [i \in 0..Size(a) |-> IF i < Size(a) THEN a[i] ELSE v]
Empty == [i \in {} |-> 0]
Range(a) == {a[i] : i \in DOMAIN a}
\* a[lo:hi]
Slice(a, lo, hi) ==
    LET h == IF hi > Size(a) THEN Size(a) ELSE hi
    IN  [i \in 0..(h - lo - 1) |-> a[lo + i]]
\* a[idx] for an index array idx
Take(a, idx) == [i \in DOMAIN idx |-> a[idx[i]]]
\* np.delete(a, positions)
RECURSIVE Kept(_, _, _)
Kept(a, drop, i) ==
    IF i >= Size(a) THEN <<>>
    ELSE IF i \in drop THEN Kept(a, drop, i + 1)
         ELSE <<a[i]>> \o Kept(a, drop, i + 1)
Delete(a, drop) ==
    LET s == Kept(a, drop, 0) IN [i \in 0..(Len(s) - 1) |-> s[i + 1]]
\* np.argmax / np.argmin: the first index of the extreme value
ArgMax(a) ==
    CHOOSE i \in DOMAIN a :
        /\ \A j \in DOMAIN a : a[j] <= a[i]
        /\ \A j \in DOMAIN a : j < i => a[j] < a[i]
ArgMin(a) ==
    CHOOSE i \in DOMAIN a :
        /\ \A j \in DOMAIN a : a[j] >= a[i]
        /\ \A j \in DOMAIN a : j < i => a[j] > a[i]
Abs(x) == IF x < 0 THEN -x ELSE x
Min(a, b) == IF a < b THEN a ELSE b
B2I(b) == IF b THEN 1 ELSE 0

\* ---- np.log, np.sqrt, np.ceil in fixed point
\* natural logarithm of 1 .. 40, in tenths, rounded
LnTab ==
    << 0,  7, 11, 14, 16, 18, 19, 21, 22, 23,
      24, 25, 26, 26, 27, 28, 28, 29, 29, 30,
      30, 31, 31, 32, 32, 33, 33, 33, 34, 34,
      34, 35, 35, 35, 36, 36, 36, 36, 37, 37>>
Log(x) == LnTab[x]
\* np.log(np.log(n)): the logarithm of Log(n) tenths
LogLog(n) == LnTab[Log(n)] - LnTab[10]
\* ceil(kn * sqrt(n / log(p)))
CeilSqrtTerm(kn, n, p) ==
    CHOOSE r \in 0..(kn * n * 10) :
        /\ r * r * Log(p) >= kn * kn * n * 10
        /\ r = 0 \/ (r - 1) * (r - 1) * Log(p) < kn * kn * n * 10

\* ---- the two information criteria
TwoNLoss(n, loss) == (2 * n * loss) \div LossDen
_hd_information_criterion(ic, loss, k, wn, n, p) ==
    CASE ic = "HQIC" -> 1000 * TwoNLoss(n, loss) + 2 * k * wn * LogLog(n) * Log(p)
      [] ic = "AIC"  -> 1000 * TwoNLoss(n, loss) + 2 * k * wn * Log(p) * 10
      [] ic = "BIC"  -> 1000 * TwoNLoss(n, loss) + k * wn * Log(n) * Log(p)
      [] OTHER       -> 0
_information_criterion(ic, loss, k, n) ==
    CASE ic = "HQIC" -> 1000 * TwoNLoss(n, loss) + k * LogLog(n) * 100
      [] ic = "AIC"  -> 1000 * TwoNLoss(n, loss) + 2 * k * 1000
      [] ic = "BIC"  -> 1000 * TwoNLoss(n, loss) + k * Log(n) * 100
      [] OTHER       -> 0

\* ---- the data (X, y) and the external minimizer
AllCols == 0..NFeatures
Cols(fi) == 0..(NFeatures + B2I(fi) - 1)
\* a coefficient: 0.0, or the solution on column col of the fit on columns fit
Zero == [fit |-> {}, col |-> None]
Sol(S, j) == [fit |-> S, col |-> j]
\* the coefficient vector that is the optimum on S, zero off S
OptPoint(S, cols) == [j \in cols |-> IF j \in S THEN Sol(S, j) ELSE Zero]
Column(beta, k) == [j \in DOMAIN beta |-> beta[j][k]]

VARIABLES
    \* the estimator object
    ic, wn, fit_intercept, attrs, self,
    \* the data: rank(X) with the intercept column, the losses and gradients met
    rank, lossOf, gradOf,
    \* the frame of _cga_hdic_trim / chebyshev_greedy_algorithm_path
    wn_arg, beta_cga, path_cga, hdic_cga, loss_path_cga, iter_cga, k, x0,
    k_hdic, model, model_trim_list, model_size, model_trim, beta_hat, loss,
    hdic_trim, reg,
    \* the frame of tune_wn_via_ic
    param_grid, ic_wn, ic_origin,
    \* control: the statement reached, the caller of the core, the last result,
    \* the calls of tune_wn_via_ic made
    pc, caller, out, tunes

estimator == <<ic, wn, fit_intercept, attrs, self>>
data == <<rank, lossOf, gradOf>>
cgaFrame == <<beta_cga, path_cga, hdic_cga, loss_path_cga, iter_cga>>
trimFrame == <<k_hdic, model, model_trim_list, model_size, model_trim, beta_hat,
               loss, hdic_trim>>
tuneFrame == <<param_grid, ic_wn, ic_origin>>
vars == <<estimator, data, wn_arg, cgaFrame, k, x0, trimFrame, reg, tuneFrame,
          pc, caller, out, tunes>>

\* a point is a known global optimum when the gradient met at an optimum
\* inside it was zero on every column
GlobalOpt(S, cols, gm) ==
    \E T \in SUBSET S :
        /\ OptPoint(T, cols) \in DOMAIN gm
        /\ gm[OptPoint(T, cols)].flat
\* the losses optimize.minimize can end with on the columns S, gm being the
\* gradients met so far
LossChoices(S, cols, gm) ==
    {l \in 0..MaxLoss :
        /\ lossOf[S] # None => l = lossOf[S]
        /\ \A T \in SUBSET cols :
              lossOf[T] # None =>
                /\ T \subseteq S => l <= lossOf[T]
                /\ S \subseteq T => l >= lossOf[T]
                /\ GlobalOpt(T, cols, gm) => l >= lossOf[T]
                /\ GlobalOpt(T, cols, gm) /\ T \subseteq S => l = lossOf[T]
                /\ GlobalOpt({}, cols, gm) => l = lossOf[T]}
\* optimize.minimize(loss on X[:, idx], x0): the solutions and final losses
Minimize(idx, start, cols, gm) ==
    {[x |-> [i \in DOMAIN idx |-> Sol(Range(idx), idx[i])], fun |-> l] :
        l \in LossChoices(Range(idx), cols, gm)}
\* loss_grad(beta): the gradients the data can have at beta
IsFlat(g) == \A j \in DOMAIN g : g[j] = 0
AbsVec(g) == [j \in DOMAIN g |-> Abs(g[j])]
PointFit(beta) == UNION {beta[j].fit : j \in DOMAIN beta}
Gradients(beta) ==
    LET cols == DOMAIN beta
        S == PointFit(beta)
        opt == beta = OptPoint(S, cols)
    IN  {g \in [cols -> (0 - MaxGrad)..MaxGrad] :
            /\ opt => \A j \in S : g[j] = 0
            /\ opt /\ GlobalOpt(S, cols, gradOf) => IsFlat(g)
            /\ beta \in DOMAIN gradOf =>
                  /\ ArgMax(AbsVec(g)) = gradOf[beta].sel
                  /\ IsFlat(g) = gradOf[beta].flat}
Remember(beta, g) ==
    [b \in DOMAIN gradOf \cup {beta} |->
        IF b = beta THEN [sel |-> ArgMax(AbsVec(g)), flat |-> IsFlat(g)]
        ELSE gradOf[b]]
\* a[idx] = vals (the last of several writes to one slot stays)
Assign(a, idx, vals) ==
    [j \in DOMAIN a |->
        IF \E i \in DOMAIN idx : idx[i] = j
        THEN vals[CHOOSE i \in DOMAIN idx :
                    idx[i] = j /\ \A i2 \in DOMAIN idx : idx[i2] = j => i2 <= i]
        ELSE a[j]]
AssignColumn(beta, idx, kk, vals) ==
    LET col == Assign(Column(beta, kk), idx, vals)
    IN  [j \in DOMAIN beta |-> [beta[j] EXCEPT ![kk] = col[j]]]

\* ---- construction
\* the result of a public call: how it ended and what it returned
Result(op, status, beta, w) == [op |-> op, status |-> status, beta |-> beta, wn |-> w]
NoOut == Result("none", "none", Empty, None)
NoReg == [intercept |-> Empty, coef |-> Empty, model_trim |-> Empty, loss |-> None,
          path_cga |-> Empty, intercept_cga |-> Empty, coef_cga |-> Empty,
          hdic_cga |-> Empty, iter_cga |-> 0]
FreshFrame ==
    /\ beta_cga = Empty /\ path_cga = Empty /\ hdic_cga = Empty
    /\ loss_path_cga = Empty /\ iter_cga = 0 /\ k = 0 /\ x0 = Empty
    /\ k_hdic = 0 /\ model = Empty /\ model_trim_list = Empty /\ model_size = 0
    /\ model_trim = Empty /\ beta_hat = Empty /\ loss = None /\ hdic_trim = None
    /\ reg = NoReg
Init ==
    /\ ic \in ICs
    /\ wn = DefaultWn
    /\ fit_intercept \in BOOLEAN
    /\ attrs = {}
    /\ self = NoReg
    /\ rank \in {r \in 1..(NFeatures + 1) :
                    /\ r <= NFeatures + B2I(fit_intercept)
                    /\ r <= NSamples
                    /\ r >= NFeatures + B2I(fit_intercept) - MaxDeficiency}
    /\ lossOf = [S \in SUBSET AllCols |-> None]
    /\ gradOf = Empty
    /\ wn_arg = DefaultWn
    /\ FreshFrame
    /\ param_grid = Empty /\ ic_wn = "BIC" /\ ic_origin = None
    /\ pc = "idle" /\ caller = "none" /\ out = NoOut /\ tunes = 0

\* a call of _cga_hdic_trim(X, y, ic, w, fit_intercept, kn, ...) from who
CallCore(who, w) ==
    /\ caller' = who
    /\ wn_arg' = w
    /\ beta_cga' = Empty /\ path_cga' = Empty /\ hdic_cga' = Empty
    /\ loss_path_cga' = Empty /\ iter_cga' = 0 /\ k' = 0 /\ x0' = Empty
    /\ k_hdic' = 0 /\ model' = Empty /\ model_trim_list' = Empty /\ model_size' = 0
    /\ model_trim' = Empty /\ loss' = None /\ hdic_trim' = None
    /\ beta_hat' = [j \in Cols(fit_intercept) |-> Zero]
    /\ reg' = NoReg
    /\ pc' = "cga_first"

\* ---- chebyshev_greedy_algorithm_path
\* lines 170-197: shapes, iter_cga, the first regressor and its fit
IterCga(fi, rk) ==
    Min(rk, CeilSqrtTerm(DefaultKn, NSamples, NFeatures + B2I(fi)) + B2I(fi))
FirstRow(path0) == 0
CgaFirstStep ==
    /\ pc = "cga_first"
    /\ LET p == NFeatures + B2I(fit_intercept)
           cols == Cols(fit_intercept)
           it == IterCga(fit_intercept, rank)
           zeros == [j \in cols |-> Full(it, Zero)]
           at == Column(zeros, 0)
       IN  \E g \in IF fit_intercept THEN {[j \in cols |-> 0]} ELSE Gradients(at) :
             LET path0 == IF fit_intercept THEN 0 ELSE ArgMax(AbsVec(g))
                 start == Slice(zeros[0], 0, 1)
                 met == IF fit_intercept THEN gradOf ELSE Remember(at, g)
             IN  \E res \in Minimize(Full(1, path0), start, cols, met) :
                   /\ iter_cga' = it
                   /\ path_cga' = [Full(it, 0) EXCEPT ![0] = path0]
                   /\ x0' = start
                   /\ beta_cga' = [zeros EXCEPT ![FirstRow(path0)][0] = res.x[0]]
                   /\ loss_path_cga' = [Full(it, 0) EXCEPT ![0] = res.fun]
                   /\ hdic_cga' = [Full(it, 0) EXCEPT ![0] =
                          _hd_information_criterion(ic, res.fun, 1, wn_arg, NSamples, p)]
                   /\ gradOf' = met
                   /\ lossOf' = [lossOf EXCEPT ![{path0}] = res.fun]
    /\ k' = 1
    /\ pc' = "cga_loop"
    /\ UNCHANGED <<estimator, rank, wn_arg, trimFrame, reg, tuneFrame, caller, out, tunes>>

\* lines 200-209: one pass of the loop
GradColumn(kk) == kk - 1
StartColumn(kk) == kk
CgaStep ==
    /\ pc = "cga_loop"
    /\ k < iter_cga
    /\ LET p == NFeatures + B2I(fit_intercept)
           cols == Cols(fit_intercept)
           at == Column(beta_cga, GradColumn(k))
       IN  \E g \in Gradients(at) :
             LET path == [path_cga EXCEPT ![k] = ArgMax(AbsVec(g))]
                 idx == Slice(path, 0, k + 1)
                 start == Take(Column(beta_cga, StartColumn(k)), idx)
             IN  \E res \in Minimize(idx, start, cols, Remember(at, g)) :
                   /\ path_cga' = path
                   /\ x0' = start
                   /\ beta_cga' = AssignColumn(beta_cga, idx, k, res.x)
                   /\ loss_path_cga' = [loss_path_cga EXCEPT ![k] = res.fun]
                   /\ hdic_cga' = [hdic_cga EXCEPT ![k] =
                          _hd_information_criterion(ic, res.fun, k + 1, wn_arg, NSamples, p)]
                   /\ gradOf' = Remember(at, g)
                   /\ lossOf' = [lossOf EXCEPT ![Range(idx)] = res.fun]
    /\ k' = k + 1
    /\ UNCHANGED <<estimator, rank, wn_arg, iter_cga, trimFrame, reg, tuneFrame,
                   pc, caller, out, tunes>>

\* ---- _cga_hdic_trim
\* lines 270-285: the path is back; the HDIC prefix; the Trim loop is entered
\* when the model has more than one variable
TrimFirstZero(fi) == 0
TrimFirst(fi) == B2I(fi)
TrimRange(fi, kh) == TrimFirst(fi)..kh
HdicSelect ==
    /\ pc = "cga_loop"
    /\ k >= iter_cga
    /\ LET kh == ArgMin(hdic_cga)
           m == Slice(path_cga, 0, kh + 1)
       IN  /\ k_hdic' = kh
           /\ model' = m
           /\ model_trim_list' = Empty
           /\ model_size' = Size(m)
           /\ IF Size(m) > 1 /\ TrimRange(fit_intercept, kh) # {}
              THEN pc' = "trim_loop" /\ k' = TrimFirst(fit_intercept)
              ELSE pc' = "trim_apply" /\ k' = k
    /\ UNCHANGED <<estimator, data, wn_arg, cgaFrame, x0, model_trim, beta_hat,
                   loss, hdic_trim, reg, tuneFrame, caller, out, tunes>>

\* lines 286-302: one pass of the Trim loop, position k of the model
TrimMarks(candidate, reference) == candidate < reference
TrimCount(kh) == kh
TrimStep ==
    /\ pc = "trim_loop"
    /\ k \in TrimRange(fit_intercept, k_hdic)
    /\ LET model_trim_k == Delete(model, {k})
           start == Take(Column(beta_cga, k_hdic), model_trim_k)
       IN  \E res \in Minimize(model_trim_k, start, Cols(fit_intercept), gradOf) :
             LET h == _hd_information_criterion(ic, res.fun, TrimCount(k_hdic),
                                                wn_arg, NSamples, NFeatures)
             IN  /\ x0' = start
                 /\ hdic_trim' = h
                 /\ lossOf' = [lossOf EXCEPT ![Range(model_trim_k)] = res.fun]
                 /\ IF TrimMarks(h, hdic_cga[k_hdic])
                    THEN /\ model_size' = model_size - 1
                         /\ model_trim_list' = With(model_trim_list, k)
                    ELSE UNCHANGED <<model_size, model_trim_list>>
    /\ IF k + 1 \in TrimRange(fit_intercept, k_hdic)
       THEN k' = k + 1 /\ pc' = "trim_loop"
       ELSE k' = k /\ pc' = "trim_apply"
    /\ UNCHANGED <<estimator, rank, gradOf, wn_arg, cgaFrame, k_hdic, model,
                   model_trim, beta_hat, loss, reg, tuneFrame, caller, out, tunes>>

\* lines 304-317: the marked positions leave together; refit, or reuse step k_hdic
TrimApply ==
    /\ pc = "trim_apply"
    /\ LET mt == Delete(model, Range(model_trim_list))
       IN  /\ model_trim' = mt
           /\ IF model_size < Size(model)
              THEN LET start == Take(Column(beta_cga, k_hdic), mt)
                   IN  \E res \in Minimize(mt, start, Cols(fit_intercept), gradOf) :
                         /\ x0' = start
                         /\ beta_hat' = Assign(beta_hat, mt, res.x)
                         /\ loss' = res.fun
                         /\ lossOf' = [lossOf EXCEPT ![Range(mt)] = res.fun]
              ELSE /\ beta_hat' = Assign(beta_hat, model,
                                         Take(Column(beta_cga, k_hdic), model))
                   /\ loss' = loss_path_cga[k_hdic]
                   /\ UNCHANGED <<x0, lossOf>>
    /\ pc' = "correct"
    /\ UNCHANGED <<estimator, rank, gradOf, wn_arg, cgaFrame, k, k_hdic, model,
                   model_trim_list, model_size, hdic_trim, reg, tuneFrame,
                   caller, out, tunes>>

\* lines 319-335: the intercept leaves the returned values
Shifted(a) == [i \in 0..(Size(a) - 2) |-> a[i + 1] - 1]
Rest(a) == [i \in 0..(Size(a) - 2) |-> a[i + 1]]
ReturnedShifted(fi) ==
    [intercept |-> beta_hat[0],
     coef |-> Rest(beta_hat),
     model_trim |-> Shifted(model_trim),
     loss |-> loss,
     path_cga |-> Shifted(path_cga),
     intercept_cga |-> beta_cga[0],
     coef_cga |-> Rest(beta_cga),
     hdic_cga |-> Rest(hdic_cga),
     iter_cga |-> iter_cga - 1]
Returned(fi) ==
    IF fi
    THEN [intercept |-> beta_hat[0],
          coef |-> Rest(beta_hat),
          model_trim |-> Shifted(model_trim),
          loss |-> loss,
          path_cga |-> Shifted(path_cga),
          intercept_cga |-> beta_cga[0],
          coef_cga |-> Rest(beta_cga),
          hdic_cga |-> Rest(hdic_cga),
          iter_cga |-> iter_cga - 1]
    ELSE [intercept |-> Full(1, Zero),
          coef |-> beta_hat,
          model_trim |-> model_trim,
          loss |-> loss,
          path_cga |-> path_cga,
          intercept_cga |-> Full(iter_cga, Zero),
          coef_cga |-> beta_cga,
          hdic_cga |-> hdic_cga,
          iter_cga |-> iter_cga]
IndexCorrect ==
    /\ pc = "correct"
    /\ reg' = Returned(fit_intercept)
    /\ pc' = "return"
    /\ UNCHANGED <<estimator, data, wn_arg, cgaFrame, k, x0, trimFrame, tuneFrame,
                   caller, out, tunes>>

\* the frame of the core is gone once its caller has taken reg
PopFrame ==
    /\ beta_cga' = Empty /\ path_cga' = Empty /\ hdic_cga' = Empty
    /\ loss_path_cga' = Empty /\ iter_cga' = 0 /\ k' = 0 /\ x0' = Empty
    /\ k_hdic' = 0 /\ model' = Empty /\ model_trim_list' = Empty /\ model_size' = 0
    /\ model_trim' = Empty /\ beta_hat' = Empty /\ loss' = None /\ hdic_trim' = None
    /\ reg' = NoReg
    /\ wn_arg' = DefaultWn
    /\ caller' = "none"

\* ---- HighDimensionalLogisticRegression
FittedAttrs == {"intercept_", "coef_", "model_", "loss_", "path_cga_",
                "intercept_cga_", "coef_cga_", "hdic_cga_", "iter_cga_"}
\* check_is_fitted(self, ['model_'])
IsFitted == "model_" \in attrs

\* lines 410-412: fit calls the core with the estimator's own wn
Fit ==
    /\ pc = "idle"
    /\ CallCore("fit", wn)
    /\ out' = NoOut
    /\ UNCHANGED <<estimator, data, tuneFrame, tunes>>
\* lines 411-414: the returned tuple becomes the fitted attributes
FitStore ==
    /\ pc = "return"
    /\ caller = "fit"
    /\ self' = reg
    /\ attrs' = attrs \cup FittedAttrs
    /\ out' = Result("fit", "ok", Empty, None)
    /\ PopFrame
    /\ pc' = "idle"
    /\ UNCHANGED <<ic, wn, fit_intercept, data, tuneFrame, tunes>>

\* np.r_[self.intercept_, self.coef_]
BetaHat == [i \in 0..Size(self.coef) |-> IF i = 0 THEN self.intercept ELSE self.coef[i - 1]]
\* lines 426-435, 448-456, 470-478: the three read-only calls share one shape
Evaluate(op) ==
    IF ~IsFitted THEN Result(op, "NotFittedError", Empty, None)
    ELSE IF fit_intercept THEN Result(op, "ok", BetaHat, None)
    ELSE IF "X_" \in attrs THEN Result(op, "ok", self.coef, None)
    ELSE Result(op, "AttributeError", Empty, None)
predict_proba ==
    /\ pc = "idle"
    /\ out' = Evaluate("predict_proba")
    /\ UNCHANGED <<estimator, data, wn_arg, cgaFrame, k, x0, trimFrame, reg,
                   tuneFrame, pc, caller, tunes>>
predict ==
    /\ pc = "idle"
    /\ out' = Evaluate("predict")
    /\ UNCHANGED <<estimator, data, wn_arg, cgaFrame, k, x0, trimFrame, reg,
                   tuneFrame, pc, caller, tunes>>
score ==
    /\ pc = "idle"
    /\ out' = Evaluate("score")
    /\ UNCHANGED <<estimator, data, wn_arg, cgaFrame, k, x0, trimFrame, reg,
                   tuneFrame, pc, caller, tunes>>

\* ---- tune_wn_via_ic
Grids ==
    UNION {{g \in [0..(len - 1) -> WnValues] :
               \A i, j \in 0..(len - 1) : i # j => g[i] # g[j]} : len \in 1..MaxGrid}
\* ic_wn is left at its default, 'BIC'
TuneIcs == {"BIC"}
PlainIc(icw, r) == _information_criterion(icw, r.loss, Size(r.model_trim), NSamples)
\* lines 497-499
TuneStart ==
    /\ pc = "idle"
    /\ tunes < MaxTunes
    /\ tunes' = tunes + 1
    /\ IF ~IsFitted
       THEN /\ out' = Result("tune_wn_via_ic", "NotFittedError", Empty, None)
            /\ UNCHANGED <<tuneFrame, pc>>
       ELSE \E icw \in TuneIcs, grid \in Grids :
            /\ ic_wn' = icw
            /\ param_grid' = grid
            /\ ic_origin' = PlainIc(icw, self)
            /\ out' = NoOut
            /\ pc' = "tune_loop"
    /\ UNCHANGED <<estimator, data, wn_arg, cgaFrame, k, x0, trimFrame, reg, caller>>
\* lines 501-502: the next grid value is handed to the core
TuneNext ==
    /\ pc = "tune_loop"
    /\ param_grid # Empty
    /\ CallCore("tune", param_grid[0])
    /\ param_grid' = Rest(param_grid)
    /\ UNCHANGED <<estimator, data, ic_wn, ic_origin, out, tunes>>
\* lines 503-507
TuneAcceptsOrEqual(ic_tune, origin) == ic_tune <= origin
TuneAccepts(ic_tune, origin) == ic_tune < origin
TuneCompare ==
    /\ pc = "return"
    /\ caller = "tune"
    /\ IF TuneAccepts(PlainIc(ic_wn, reg), ic_origin)
       THEN wn' = wn_arg /\ self' = reg
       ELSE UNCHANGED <<wn, self>>
    /\ PopFrame
    /\ pc' = "tune_loop"
    /\ UNCHANGED <<ic, fit_intercept, attrs, data, tuneFrame, out, tunes>>
\* line 509
TuneReturn ==
    /\ pc = "tune_loop"
    /\ param_grid = Empty
    /\ out' = Result("tune_wn_via_ic", "ok", Empty, wn)
    /\ ic_wn' = "BIC" /\ ic_origin' = None
    /\ pc' = "idle"
    /\ UNCHANGED <<estimator, data, wn_arg, cgaFrame, k, x0, trimFrame, reg,
                   param_grid, caller, tunes>>

Next ==
    \/ Fit \/ CgaFirstStep \/ CgaStep \/ HdicSelect \/ TrimStep \/ TrimApply
    \/ IndexCorrect \/ FitStore
    \/ predict_proba \/ predict \/ score
    \/ TuneStart \/ TuneNext \/ TuneCompare \/ TuneReturn
Spec == Init /\ [][Next]_vars

\* ------------------------------------------------------------------------
\* ---- properties of the program
\* ------------------------------------------------------------------------
\* the path builder has returned and the frame of the core is still there
PathBuilt ==
    \/ pc = "cga_loop" /\ k >= iter_cga
    \/ pc \in {"trim_loop", "trim_apply", "correct", "return"}
TrimDone == pc \in {"correct", "return"}

\* C1: the path of chebyshev_greedy_algorithm_path holds no column twice,
\* whatever fit_intercept is, also when the gradient at the previous step's
\* coefficients is zero on every column and the first-index argmax lands on
\* a column that is already active.
C1_PathUnique ==
    PathBuilt =>
        \A i, j \in DOMAIN path_cga : i < j => path_cga[i] # path_cga[j]

\* C2: the HD-IC of the final trimmed model (the final loss, scored with as
\* many free parameters as the trimmed model has, same ic, wn, n, p as the
\* Trim loop) is at most hdic_cga[k_hdic], the score of the model before the
\* Trim, also when several positions leave together.
C2_TrimNeverWorse ==
    TrimDone =>
        _hd_information_criterion(ic, loss, Size(model_trim), wn_arg, NSamples,
                                  NFeatures) <= hdic_cga[k_hdic]

\* C3: the trimmed model (before the index shift) is an order-preserving
\* subsequence of the selected model path[0 .. argmin(hdic_cga)], the first
\* minimum on ties; with an intercept, position 0 is never a candidate and
\* the intercept stays the first entry; a selected model of one variable is
\* left alone, no removal being tried.
IsSubsequence(a, b) ==
    \E f \in [DOMAIN a -> DOMAIN b] :
        /\ \A i, j \in DOMAIN a : i < j => f[i] < f[j]
        /\ \A i \in DOMAIN a : a[i] = b[f[i]]
FirstMinimum(a, i) ==
    /\ i \in DOMAIN a
    /\ \A j \in DOMAIN a : a[i] <= a[j]
    /\ \A j \in DOMAIN a : j < i => a[i] < a[j]
C3_TrimmedIsSubsequence ==
    TrimDone =>
        /\ FirstMinimum(hdic_cga, k_hdic)
        /\ model = [i \in 0..k_hdic |-> path_cga[i]]
        /\ IsSubsequence(model_trim, model)
        /\ fit_intercept =>
              /\ 0 \notin Range(model_trim_list)
              /\ Size(model_trim) >= 1
              /\ Size(model_trim) >= 1 => model_trim[0] = 0
        /\ Size(model) = 1 =>
              /\ model_trim = model
              /\ model_trim_list = Empty
              /\ hdic_trim = None
\* a fit with an intercept in which the Trim loop removed a variable
C3_Witness ==
    /\ pc = "correct"
    /\ fit_intercept
    /\ Size(model) >= 3
    /\ model_trim_list # Empty
    /\ Size(model_trim) < Size(model)

\* C4: after tune_wn_via_ic the retained fitted state is the one of least
\* plain IC among the initial fit and every refit, in whatever order the
\* grid comes: each comparison leaves the better of the retained state and
\* the refit, so a refit that beats only the initial fit replaces nothing
\* better than itself.
TuneCompares == pc = "return" /\ caller = "tune"
C4_TuneKeepsMinimum ==
    [][TuneCompares =>
          PlainIc(ic_wn, self') = Min(PlainIc(ic_wn, self), PlainIc(ic_wn, reg))]_vars

\* C5: during and after tune_wn_via_ic the plain IC of the retained fitted
\* state is never above that of the initial fit; self.wn and the fitted
\* attributes change only together, to the refit of the grid value just run
\* and only when that refit is strictly below the initial fit; the value
\* returned is self.wn.
TuneAlive == pc = "tune_loop" \/ caller = "tune"
C5_TuneNeverWorse ==
    [][/\ TuneAlive' => PlainIc(ic_wn', self') <= ic_origin'
       /\ TuneAlive /\ (self' # self \/ wn' # wn \/ attrs' # attrs) =>
             /\ TuneCompares
             /\ self' = reg /\ wn' = wn_arg /\ attrs' = attrs
             /\ PlainIc(ic_wn, reg) < ic_origin
       /\ TuneAlive /\ ~TuneAlive' => out'.status = "ok" /\ out'.wn = wn]_vars
\* a tuning that took a refit with a strictly lower plain IC
C5_Witness ==
    /\ pc = "tune_loop"
    /\ param_grid = Empty
    /\ wn # DefaultWn
    /\ PlainIc(ic_wn, self) < ic_origin

\* C6: what _cga_hdic_trim returns is consistent in length: the path, the IC
\* trajectory, the intercept trajectory and the columns of the coefficient
\* trajectory all have the returned iter_cga entries, with or without an
\* intercept.
C6_ReturnedLengths ==
    pc = "return" =>
        /\ Size(reg.path_cga) = reg.iter_cga
        /\ Size(reg.hdic_cga) = reg.iter_cga
        /\ Size(reg.intercept_cga) = reg.iter_cga
        /\ \A j \in DOMAIN reg.coef_cga : Size(reg.coef_cga[j]) = reg.iter_cga

\* C7: predict_proba, predict and score end in NotFittedError before any fit
\* and, once fitted, end well with a result computed from the fitted
\* intercept and coefficients, whatever fit_intercept is.
Reads == {"predict_proba", "predict", "score"}
C7_ReadsEndWell ==
    out.op \in Reads =>
        IF IsFitted
        THEN /\ out.status = "ok"
             /\ out.beta = IF fit_intercept THEN BetaHat ELSE self.coef
        ELSE out.status = "NotFittedError"

\* C8: without an intercept _cga_hdic_trim returns an intercept that is
\* exactly 0 and shifts no index: the path, the trimmed model, iter_cga and
\* the IC and coefficient trajectories are those of its frame, the trimmed
\* model holding column indices of X.
C8_NoInterceptNoShift ==
    pc = "return" /\ ~fit_intercept =>
        /\ Size(reg.intercept) = 1
        /\ \A i \in DOMAIN reg.intercept : reg.intercept[i] = Zero
        /\ reg.path_cga = path_cga
        /\ reg.model_trim = model_trim
        /\ Range(reg.model_trim) \subseteq 0..(NFeatures - 1)
        /\ reg.iter_cga = iter_cga
        /\ reg.hdic_cga = hdic_cga
        /\ reg.coef_cga = beta_cga
        /\ reg.coef = beta_hat
\* a return without an intercept whose trimmed model holds column 0 and more
C8_Witness ==
    /\ pc = "return"
    /\ ~fit_intercept
    /\ Size(reg.model_trim) >= 2
    /\ 0 \in Range(reg.model_trim)

\* C9: at every step k >= 1 of the path builder the minimizer starts from
\* the previous step's solution (column k-1 of the coefficient trajectory)
\* on path[0 .. k-1] and from zero on the new variable path[k].
C9_WarmStart ==
    pc = "cga_loop" /\ k >= 2 =>
        x0 = [i \in 0..(k - 1) |->
                 IF i < k - 1 THEN beta_cga[path_cga[i]][k - 2] ELSE Zero]

\* C10: in the Trim loop position k of the selected model is marked exactly
\* when it is not the intercept's and the HD-IC of the model without it
\* (refit, counted with k_hdic parameters) is strictly below hdic_cga[k_hdic],
\* a reference that stays; the marked positions leave together; the final
\* coefficients and loss are those of one refit on model_trim when a position
\* was marked, and otherwise the coefficients and loss of step k_hdic.
CandidateScore(kk) ==
    _hd_information_criterion(ic, lossOf[Range(Delete(model, {kk}))], k_hdic,
                              wn_arg, NSamples, NFeatures)
C10_TrimRule ==
    TrimDone =>
        /\ Size(model) > 1 =>
              Range(model_trim_list) =
                 {kk \in DOMAIN model :
                     (fit_intercept => kk # 0) /\ CandidateScore(kk) < hdic_cga[k_hdic]}
        /\ model_trim = Delete(model, Range(model_trim_list))
        /\ IF model_trim_list # Empty
           THEN /\ loss = lossOf[Range(model_trim)]
                /\ beta_hat = OptPoint(Range(model_trim), DOMAIN beta_hat)
           ELSE /\ loss = loss_path_cga[k_hdic]
                /\ beta_hat = Column(beta_cga, k_hdic)

\* C11: with an intercept every index of the returned path and of the
\* returned model_trim, after the shift down by one, is a column index of
\* the original X, 0 .. p-1; none is -1.
C11_ReturnedIndicesValid ==
    pc = "return" /\ fit_intercept =>
        /\ Range(reg.path_cga) \subseteq 0..(NFeatures - 1)
        /\ Range(reg.model_trim) \subseteq 0..(NFeatures - 1)

\* C12: with a minimizer whose minimal loss depends on the set of columns
\* alone, the Trim loop never marks the last position k_hdic of the selected
\* model, and the trimmed model is never empty, with or without an intercept.
C12_LastNeverMarked ==
    TrimDone =>
        /\ k_hdic \notin Range(model_trim_list)
        /\ Size(model_trim) >= 1
====
